---- MODULE Spec2Model ----
(***************************************************************************)
(* Banking document RAG system: the ingestion, deletion and query          *)
(* handlers of app.py over the record store (src/database.py) and the      *)
(* retrieval index (src/rag_engine.py), with the text functions of         *)
(* src/document_processor.py.                                              *)
(*                                                                         *)
(* A text is a sequence of one-character strings.  Python offsets are      *)
(* 0-based: the character text[i] of the source is t[i + 1] here.          *)
(***************************************************************************)
EXTENDS Integers, Sequences, FiniteSets, TLC

VARIABLES
  files,            \* the paths present in the documents directory
  documents,        \* record store: the rows of table documents (a set, keyed by id)
  entities,         \* record store: the rows of table entities, in insertion order
  document_chunks,  \* record store: the rows of table document_chunks, in insertion order
  collection,       \* retrieval index: embedding id -> [document, metadata]
  next_uuid,        \* how many document ids uuid4 has handed out
  _ollama_available,\* RAGEngine._ollama_available: "None", "True" or "False"
  purged,           \* history: the documents whose embeddings a successful
                    \* delete_document_embeddings removed, and nothing was added since
  last,             \* what the last call did and returned to its caller
  probes,           \* history: what each ollama.list() probe of the engine found
  _rag_engine,      \* rag_engine._rag_engine: 0 for None, else the n-th RAGEngine made
  _embedder,        \* RAGEngine._embedder: 0 for None, else the n-th model loaded
  _collection,      \* RAGEngine._collection: 0 for None, else the n-th handle opened
  constructed,      \* history: how many objects each lazy provider has constructed
  threads,          \* the requests using a lazy provider: position and what they got
  adders,           \* the add_document calls in progress: arguments and loop position
  chunker,          \* a call of chunk_text: arguments, loop variables, windows cut
  extraction,       \* a call of extract_entities and calculate_quality_score
  classified        \* a call of classify_document: the text and the type returned

\* what the concurrent callers of the engine read and write besides the index
concurrent == <<_rag_engine, _embedder, _collection, constructed, threads, adders>>

\* the calls of the text functions, which touch no store
functions == <<chunker, extraction, classified>>

vars == <<files, documents, entities, document_chunks, collection, next_uuid,
          _ollama_available, purged, last, probes, concurrent, functions>>

----------------------------------------------------------------------------
(* Python string primitives                                                *)

SetMax(S) == CHOOSE x \in S : \A y \in S : y <= x

SetMin(S) == CHOOSE x \in S : \A y \in S : x <= y

IntMax(a, b) == IF a >= b THEN a ELSE b

IntMin(a, b) == IF a <= b THEN a ELSE b

\* the characters Python's str.strip() and the regex class \s remove
Whitespace == {" ", "\n", "\t"}

UpperCase ==
  <<"A", "B", "C", "D", "E", "F", "G", "H", "I", "J", "K", "L", "M",
    "N", "O", "P", "Q", "R", "S", "T", "U", "V", "W", "X", "Y", "Z">>

LowerCase ==
  <<"a", "b", "c", "d", "e", "f", "g", "h", "i", "j", "k", "l", "m",
    "n", "o", "p", "q", "r", "s", "t", "u", "v", "w", "x", "y", "z">>

Digits == {"0", "1", "2", "3", "4", "5", "6", "7", "8", "9"}

\* str.lower() on one character
lower_char(c) ==
  IF \E i \in 1..Len(UpperCase) : UpperCase[i] = c
  THEN LowerCase[CHOOSE i \in 1..Len(UpperCase) : UpperCase[i] = c]
  ELSE c

\* a list given as a function on 1..n, as the tuple of its elements
list(f) == SubSeq(f, 1, Len(f))

\* str.lower()
lower(t) == list([i \in 1..Len(t) |-> lower_char(t[i])])

\* str.strip()
strip(t) ==
  IF \A i \in 1..Len(t) : t[i] \in Whitespace THEN <<>>
  ELSE LET first == CHOOSE i \in 1..Len(t) :
                      t[i] \notin Whitespace /\ \A j \in 1..(i - 1) : t[j] \in Whitespace
           last_ == CHOOSE i \in 1..Len(t) :
                      t[i] \notin Whitespace /\ \A j \in (i + 1)..Len(t) : t[j] \in Whitespace
       IN  SubSeq(t, first, last_)

\* a slice bound as Python clamps it: negative bounds count from the end
slice_bound(n, i) == IF i < 0 THEN IntMax(0, n + i) ELSE IntMin(i, n)

\* t[a:b]
slice(t, a, b) ==
  LET lo == slice_bound(Len(t), a)
      hi == slice_bound(Len(t), b)
  IN  IF lo < hi THEN SubSeq(t, lo + 1, hi) ELSE <<>>

\* needle in haystack
contains(needle, haystack) ==
  \E i \in 0..(Len(haystack) - Len(needle)) :
      SubSeq(haystack, i + 1, i + Len(needle)) = needle

\* re.sub(r'\s+', ' ', t) on t[a..b]: a whitespace character that follows
\* another one adds nothing, the first of a run adds one space
RECURSIVE collapse_range(_, _, _)
collapse_range(t, a, b) ==
  IF a > b THEN <<>>
  ELSE IF a = b
  THEN IF t[a] \notin Whitespace THEN <<t[a]>>
       ELSE IF a > 1 /\ t[a - 1] \in Whitespace THEN <<>>
       ELSE <<" ">>
  ELSE LET mid == (a + b) \div 2
       IN  collapse_range(t, a, mid) \o collapse_range(t, mid + 1, b)

\* re.sub(r'\s+', ' ', t): every run of whitespace becomes one space
collapse_whitespace(t) == collapse_range(t, 1, Len(t))

----------------------------------------------------------------------------
(* src/document_processor.py                                               *)

\* path.suffix.lower() of the supported spellings of a file extension
suffix_lower(ext) ==
  CASE ext = ".TXT" -> ".txt"
    [] ext = ".PDF" -> ".pdf"
    [] ext = ".DOCX" -> ".docx"
    [] OTHER -> ext

\* extract_text_from_txt, extract_text_from_pdf, extract_text_from_docx: what
\* the reader finds in the file, stripped
extract_text_from_file(content) == strip(content)

\* extract_text: the reader of the file type returns `read` (or raises:
\* reader_ok = FALSE); any other extension raises ValueError
extract_text(ext, read, reader_ok) ==
  IF suffix_lower(ext) \in {".pdf", ".txt", ".docx"}
  THEN IF reader_ok
       THEN [raised |-> FALSE, text |-> read]
       ELSE [raised |-> TRUE, text |-> <<>>]
  ELSE [raised |-> TRUE, text |-> <<>>]

\* the keywords of each document type, in declaration order
classifications ==
  <<
   [doc_type |-> "loan_application",
    keywords |-> <<
         <<"l", "o", "a", "n", " ", "a", "p", "p", "l", "i", "c", "a", "t", "i", "o", "n">>,
         <<"l", "o", "a", "n", " ", "a", "m", "o", "u", "n", "t">>,
         <<"e", "m", "i">>,
         <<"i", "n", "t", "e", "r", "e", "s", "t", " ", "r", "a", "t", "e">>,
         <<"h", "o", "m", "e", " ", "l", "o", "a", "n">>,
         <<"p", "e", "r", "s", "o", "n", "a", "l", " ", "l", "o", "a", "n">>,
         <<"b", "u", "s", "i", "n", "e", "s", "s", " ", "l", "o", "a", "n">>,
         <<"l", "o", "a", "n", " ", "t", "e", "n", "u", "r", "e">>,
         <<"p", "r", "i", "n", "c", "i", "p", "a", "l", " ", "a", "m", "o", "u", "n", "t">>,
         <<"l", "o", "a", "n", " ", "p", "u", "r", "p", "o", "s", "e">>,
         <<"c", "o", "l", "l", "a", "t", "e", "r", "a", "l">> >>],
   [doc_type |-> "kyc_document",
    keywords |-> <<
         <<"a", "a", "d", "h", "a", "a", "r">>,
         <<"a", "a", "d", "h", "a", "r">>,
         <<"p", "a", "n", " ", "c", "a", "r", "d">>,
         <<"k", "y", "c">>,
         <<"k", "n", "o", "w", " ", "y", "o", "u", "r", " ", "c", "u", "s", "t", "o", "m", "e", "r">>,
         <<"i", "d", "e", "n", "t", "i", "t", "y", " ", "p", "r", "o", "o", "f">>,
         <<"a", "d", "d", "r", "e", "s", "s", " ", "p", "r", "o", "o", "f">>,
         <<"p", "a", "s", "s", "p", "o", "r", "t">>,
         <<"v", "o", "t", "e", "r", " ", "i", "d">>,
         <<"d", "r", "i", "v", "i", "n", "g", " ", "l", "i", "c", "e", "n", "s", "e">>,
         <<"v", "e", "r", "i", "f", "i", "c", "a", "t", "i", "o", "n">>,
         <<"i", "d", "e", "n", "t", "i", "t", "y", " ", "d", "o", "c", "u", "m", "e", "n", "t">> >>],
   [doc_type |-> "bank_statement",
    keywords |-> <<
         <<"a", "c", "c", "o", "u", "n", "t", " ", "s", "t", "a", "t", "e", "m", "e", "n", "t">>,
         <<"t", "r", "a", "n", "s", "a", "c", "t", "i", "o", "n", " ", "h", "i", "s", "t", "o", "r", "y">>,
         <<"o", "p", "e", "n", "i", "n", "g", " ", "b", "a", "l", "a", "n", "c", "e">>,
         <<"c", "l", "o", "s", "i", "n", "g", " ", "b", "a", "l", "a", "n", "c", "e">>,
         <<"c", "r", "e", "d", "i", "t">>,
         <<"d", "e", "b", "i", "t">>,
         <<"s", "t", "a", "t", "e", "m", "e", "n", "t", " ", "p", "e", "r", "i", "o", "d">>,
         <<"a", "c", "c", "o", "u", "n", "t", " ", "n", "u", "m", "b", "e", "r">>,
         <<"t", "r", "a", "n", "s", "a", "c", "t", "i", "o", "n", " ", "d", "a", "t", "e">>,
         <<"b", "a", "n", "k", " ", "s", "t", "a", "t", "e", "m", "e", "n", "t">> >>],
   [doc_type |-> "salary_slip",
    keywords |-> <<
         <<"s", "a", "l", "a", "r", "y", " ", "s", "l", "i", "p">>,
         <<"p", "a", "y", " ", "s", "l", "i", "p">>,
         <<"g", "r", "o", "s", "s", " ", "s", "a", "l", "a", "r", "y">>,
         <<"n", "e", "t", " ", "s", "a", "l", "a", "r", "y">>,
         <<"b", "a", "s", "i", "c", " ", "p", "a", "y">>,
         <<"a", "l", "l", "o", "w", "a", "n", "c", "e", "s">>,
         <<"d", "e", "d", "u", "c", "t", "i", "o", "n", "s">>,
         <<"p", "f", " ", "c", "o", "n", "t", "r", "i", "b", "u", "t", "i", "o", "n">>,
         <<"i", "n", "c", "o", "m", "e", " ", "t", "a", "x">>,
         <<"t", "a", "k", "e", " ", "h", "o", "m", "e">>,
         <<"e", "a", "r", "n", "i", "n", "g", "s">> >>]
  >>

\* number of keywords of the list that occur in text_lower
keyword_score(keywords, text_lower) ==
  Cardinality({i \in 1..Len(keywords) : contains(keywords[i], text_lower)})

\* a variant of classify_document in which the last type with the highest
\* score wins
classify_document_last_wins(text) ==
  LET text_lower == lower(text)
      scores == list([i \in 1..Len(classifications) |->
                        keyword_score(classifications[i].keywords, text_lower)])
      best == SetMax({i \in 1..Len(scores) :
                        \A j \in 1..Len(scores) : scores[j] <= scores[i]})
  IN  IF scores[best] = 0 THEN "other" ELSE classifications[best].doc_type

\* classify_document: max(scores, key=scores.get) is the first type, in
\* declaration order, whose score is the highest; 'other' when it is 0
classify_document(text) ==
  LET text_lower == lower(text)
      scores == list([i \in 1..Len(classifications) |->
                        keyword_score(classifications[i].keywords, text_lower)])
      best == SetMin({i \in 1..Len(scores) :
                        \A j \in 1..Len(scores) : scores[j] <= scores[i]})
  IN  IF scores[best] = 0 THEN "other" ELSE classifications[best].doc_type

CHUNK_SIZE == 500

CHUNK_OVERLAP == 50

\* the characters chunk_text takes for the end of a sentence
SentenceEnd == {".", "!", "?", "\n"}

\* text[i] for an offset the loop of chunk_text reads (negative offsets count
\* from the end, as Python reads them)
char_at(text, i) == IF i < 0 THEN text[Len(text) + i + 1] ELSE text[i + 1]

\* the end of the window that starts at `start`: start + chunk_size, moved to
\* just after the last sentence end found scanning down from that offset to
\* the middle of the window
chunk_end(text, chunk_size, start) ==
  LET end == start + chunk_size
      stop == IntMax(start + chunk_size \div 2, start)
      found == {i \in (stop + 1)..end :
                  i >= -Len(text) /\ i < Len(text) /\ char_at(text, i) \in SentenceEnd}
  IN  IF end < Len(text) /\ found # {} THEN SetMax(found) + 1 ELSE end

\* the scan for a sentence end raises IndexError: it finds no sentence end
\* before it reads an offset below -len(text) (the window starts that far
\* before the text once overlap has moved start below zero)
chunk_scan_raises(text, chunk_size, start) ==
  LET end == start + chunk_size
      stop == IntMax(start + chunk_size \div 2, start)
  IN  /\ end < Len(text)
      /\ stop + 1 <= end
      /\ stop + 1 < -Len(text)
      /\ chunk_end(text, chunk_size, start) = end

\* the while loop of chunk_text
RECURSIVE chunk_loop(_, _, _, _, _, _)
chunk_loop(text, chunk_size, overlap, start, chunk_index, chunks) ==
  IF ~(start < Len(text)) THEN chunks
  ELSE LET end == chunk_end(text, chunk_size, start)
           chunk == strip(slice(text, start, end))
       IN  IF chunk # <<>>
           THEN chunk_loop(text, chunk_size, overlap, end - overlap,
                           chunk_index + 1, Append(chunks, <<chunk, chunk_index>>))
           ELSE chunk_loop(text, chunk_size, overlap, end - overlap,
                           chunk_index, chunks)

\* a variant of chunk_text that returns no chunk for a text that is empty
\* after normalisation
chunk_text_dropping_empty(raw, chunk_size, overlap) ==
  LET text == strip(collapse_whitespace(raw))
  IN  IF text = <<>> THEN <<>>
      ELSE IF Len(text) <= chunk_size THEN << <<text, 0>> >>
      ELSE chunk_loop(text, chunk_size, overlap, 0, 0, <<>>)

\* chunk_text: a list of (chunk_text, chunk_index)
chunk_text(raw, chunk_size, overlap) ==
  LET text == strip(collapse_whitespace(raw))
  IN  IF Len(text) <= chunk_size THEN << <<text, 0>> >>
      ELSE chunk_loop(text, chunk_size, overlap, 0, 0, <<>>)

----------------------------------------------------------------------------
(* Python's re: a pattern is a tree of records, matched by backtracking    *)

\* the character U+20B9 (Indian rupee sign), one element of a text
RupeeSign == "rupee"

UpperLetters == {UpperCase[i] : i \in 1..Len(UpperCase)}

LowerLetters == {LowerCase[i] : i \in 1..Len(LowerCase)}

\* the class \w
WordChars == UpperLetters \cup LowerLetters \cup Digits \cup {"_"}

ReSet(chars) == [op |-> "set", chars |-> chars]

ReSeq(items) == [op |-> "seq", items |-> items]

ReAlt(items) == [op |-> "alt", items |-> items]

\* item{min,max}, greedy; max = -1 is no upper limit
ReRep(item, min, max) == [op |-> "rep", item |-> item, min |-> min, max |-> max]

\* \b
ReWordBoundary == [op |-> "wb"]

\* $
ReEnd == [op |-> "end"]

\* re.IGNORECASE: the pattern with every class folded to lower case, to be
\* matched against the lower-cased text
RECURSIVE ignore_case(_)
ignore_case(r) ==
  CASE r.op = "set" -> ReSet({lower_char(c) : c \in r.chars})
    [] r.op \in {"seq", "alt"} ->
         [op |-> r.op, items |-> list([i \in 1..Len(r.items) |-> ignore_case(r.items[i])])]
    [] r.op = "rep" -> ReRep(ignore_case(r.item), r.min, r.max)
    [] OTHER -> r

is_word_at(t, i) == i >= 1 /\ i <= Len(t) /\ t[i] \in WordChars

\* the offsets at which a match of r that starts at offset p can end, in the
\* order in which the backtracking matcher tries them
RECURSIVE match_ends(_, _, _), match_each(_, _, _)
match_each(r, t, starts) ==
  IF starts = <<>> THEN <<>>
  ELSE match_ends(r, t, Head(starts)) \o match_each(r, t, Tail(starts))

match_ends(r, t, p) ==
  CASE r.op = "set" ->
         IF p < Len(t) /\ t[p + 1] \in r.chars THEN <<p + 1>> ELSE <<>>
    [] r.op = "wb" ->
         IF is_word_at(t, p) # is_word_at(t, p + 1) THEN <<p>> ELSE <<>>
    [] r.op = "end" ->
         IF p = Len(t) \/ (p = Len(t) - 1 /\ t[Len(t)] = "\n") THEN <<p>> ELSE <<>>
    [] r.op = "seq" ->
         IF r.items = <<>> THEN <<p>>
         ELSE match_each(ReSeq(Tail(r.items)), t, match_ends(Head(r.items), t, p))
    [] r.op = "alt" ->
         IF r.items = <<>> THEN <<>>
         ELSE match_ends(Head(r.items), t, p) \o match_ends(ReAlt(Tail(r.items)), t, p)
    [] r.op = "rep" ->
         (IF r.max = 0 THEN <<>>
          ELSE match_each(ReRep(r.item, IntMax(0, r.min - 1),
                                IF r.max < 0 THEN r.max ELSE r.max - 1),
                          t, SelectSeq(match_ends(r.item, t, p), LAMBDA e : e > p)))
         \o (IF r.min = 0 THEN <<p>> ELSE <<>>)

\* re.match(r, t) is not None
re_match(r, t) == match_ends(r, t, 0) # <<>>

\* the matches of r in t from offset pos on, leftmost first, not overlapping:
\* each as <<start, end>>
RECURSIVE find_from(_, _, _)
find_from(r, t, pos) ==
  LET starts == {p \in pos..Len(t) : match_ends(r, t, p) # <<>>}
  IN  IF starts = {} THEN <<>>
      ELSE LET start == SetMin(starts)
               end == Head(match_ends(r, t, start))
           IN  <<<<start, end>>>>
               \o find_from(r, t, IF end > start THEN end ELSE start + 1)

\* re.findall(r, text, re.IGNORECASE) for a pattern without groups
findall_ignore_case(r, text) ==
  LET spans == find_from(ignore_case(r), lower(text), 0)
  IN  list([i \in 1..Len(spans) |-> slice(text, spans[i][1], spans[i][2])])

----------------------------------------------------------------------------
(* src/entity_extractor.py                                                 *)

ReDigit == ReSet(Digits)

ReLit(c) == ReSet({c})

ReTimes(item, n) == ReRep(item, n, n)

ReOpt(item) == ReRep(item, 0, 1)

RePlus(item) == ReRep(item, 1, -1)

PAN_SHAPE ==
  <<ReTimes(ReSet(UpperLetters), 5), ReTimes(ReSet(Digits), 4), ReSet(UpperLetters)>>

IFSC_SHAPE ==
  <<ReTimes(ReSet(UpperLetters), 4), ReLit("0"),
    ReTimes(ReSet(UpperLetters \cup Digits), 6)>>

\* PATTERNS, in declaration order
PATTERNS ==
  << [entity_type |-> "pan_number",
      pattern |-> ReSeq(<<ReWordBoundary>> \o PAN_SHAPE \o <<ReWordBoundary>>)],
     [entity_type |-> "aadhaar_number",
      pattern |-> ReSeq(<<ReWordBoundary, ReTimes(ReDigit, 4), ReOpt(ReSet(Whitespace)),
                          ReTimes(ReDigit, 4), ReOpt(ReSet(Whitespace)),
                          ReTimes(ReDigit, 4), ReWordBoundary>>)],
     [entity_type |-> "phone_number",
      pattern |-> ReSeq(<<ReWordBoundary, ReSet({"6", "7", "8", "9"}),
                          ReTimes(ReDigit, 9), ReWordBoundary>>)],
     [entity_type |-> "email",
      pattern |-> ReSeq(<<ReWordBoundary,
                          RePlus(ReSet(UpperLetters \cup LowerLetters \cup Digits
                                       \cup {".", "_", "%", "+", "-"})),
                          ReLit("@"),
                          RePlus(ReSet(UpperLetters \cup LowerLetters \cup Digits
                                       \cup {".", "-"})),
                          ReLit("."),
                          ReRep(ReSet(UpperLetters \cup LowerLetters \cup {"|"}), 2, -1),
                          ReWordBoundary>>)],
     [entity_type |-> "amount",
      pattern |-> ReSeq(<<ReAlt(<<ReLit(RupeeSign),
                                  ReSeq(<<ReLit("R"), ReLit("s"), ReOpt(ReLit("."))>>),
                                  ReSeq(<<ReLit("I"), ReLit("N"), ReLit("R")>>)>>),
                          ReOpt(ReSet(Whitespace)),
                          RePlus(ReSet(Digits \cup {","})),
                          ReOpt(ReSeq(<<ReLit("."), ReTimes(ReDigit, 2)>>))>>)],
     [entity_type |-> "date",
      pattern |-> ReSeq(<<ReWordBoundary, ReTimes(ReDigit, 2), ReSet({"/", "-"}),
                          ReTimes(ReDigit, 2), ReSet({"/", "-"}),
                          ReTimes(ReDigit, 4), ReWordBoundary>>)],
     [entity_type |-> "account_number",
      pattern |-> ReSeq(<<ReWordBoundary, ReRep(ReDigit, 9, 18), ReWordBoundary>>)],
     [entity_type |-> "ifsc_code",
      pattern |-> ReSeq(<<ReWordBoundary>> \o IFSC_SHAPE \o <<ReWordBoundary>>)],
     [entity_type |-> "pin_code",
      pattern |-> ReSeq(<<ReWordBoundary,
                          ReSet({"1", "2", "3", "4", "5", "6", "7", "8", "9"}),
                          ReTimes(ReDigit, 5), ReWordBoundary>>)],
     [entity_type |-> "percentage",
      pattern |-> ReSeq(<<ReWordBoundary, RePlus(ReDigit),
                          ReOpt(ReSeq(<<ReLit("."), RePlus(ReDigit)>>)),
                          ReLit("%")>>)] >>

\* a variant of unique_in_order that keeps every match: list(matches)
unique_in_order_keeping_repeats(matches) == matches

\* list(dict.fromkeys(matches)): the first occurrence of each value, in order
unique_in_order(matches) ==
  LET first == {i \in 1..Len(matches) : \A j \in 1..(i - 1) : matches[j] # matches[i]}
      pick[k \in 0..Len(matches)] ==
        IF k = 0 THEN <<>>
        ELSE IF k \in first THEN Append(pick[k - 1], matches[k]) ELSE pick[k - 1]
  IN  pick[Len(matches)]

\* the entities dict built over the first n patterns: a list of
\* [entity_type, values] in insertion order
RECURSIVE extract_upto(_, _)
extract_upto(text, n) ==
  IF n = 0 THEN <<>>
  ELSE LET unique_matches ==
             unique_in_order(findall_ignore_case(PATTERNS[n].pattern, text))
       IN  IF unique_matches # <<>>
           THEN Append(extract_upto(text, n - 1),
                       [entity_type |-> PATTERNS[n].entity_type,
                        values |-> unique_matches])
           ELSE extract_upto(text, n - 1)

\* extract_entities
extract_entities(text) == extract_upto(text, Len(PATTERNS))

\* entity_type in entities
has_entity(ents, entity_type) ==
  \E i \in 1..Len(ents) : ents[i].entity_type = entity_type

\* entities[entity_type]
entity_values(ents, entity_type) ==
  ents[CHOOSE i \in 1..Len(ents) : ents[i].entity_type = entity_type].values

\* validate_pan
validate_pan(pan) ==
  /\ re_match(ReSeq(PAN_SHAPE \o <<ReEnd>>), pan)
  /\ pan[4] \in {"P", "C", "H", "F", "A", "T", "B", "L", "J", "G"}

\* validate_aadhaar
validate_aadhaar(aadhaar) ==
  LET aadhaar_clean == SelectSeq(aadhaar, LAMBDA c : c # " ")
  IN  /\ re_match(ReSeq(<<ReTimes(ReDigit, 12), ReEnd>>), aadhaar_clean)
      /\ aadhaar_clean[1] \notin {"0", "1"}

\* validate_ifsc
validate_ifsc(ifsc) == re_match(ReSeq(IFSC_SHAPE \o <<ReEnd>>), ifsc)

\* get_entity_summary, the total_entities count: sum(len(v) for v in entities.values())
RECURSIVE total_entities(_)
total_entities(ents) ==
  IF ents = <<>> THEN 0
  ELSE Len(Head(ents).values) + total_entities(Tail(ents))

\* required_entities.get(doc_type, [])
required_entities(doc_type) ==
  CASE doc_type = "loan_application" -> <<"pan_number", "phone_number", "amount", "date">>
    [] doc_type = "kyc_document" -> <<"pan_number", "aadhaar_number", "phone_number", "date">>
    [] doc_type = "bank_statement" -> <<"account_number", "ifsc_code", "date", "amount">>
    [] doc_type = "salary_slip" -> <<"pan_number", "amount", "date">>
    [] OTHER -> <<>>

\* a variant of score_of that returns completeness + validation_bonus without
\* the cap of min(100, ...)
score_of_uncapped(ents, doc_type) ==
  LET required == required_entities(doc_type)
      found == Cardinality({i \in 1..Len(required) : has_entity(ents, required[i])})
      pan_bonus ==
        IF /\ has_entity(ents, "pan_number")
           /\ \E i \in 1..Len(entity_values(ents, "pan_number")) :
                 validate_pan(entity_values(ents, "pan_number")[i])
        THEN 5 ELSE 0
      aadhaar_bonus ==
        IF /\ has_entity(ents, "aadhaar_number")
           /\ \E i \in 1..Len(entity_values(ents, "aadhaar_number")) :
                 validate_aadhaar(entity_values(ents, "aadhaar_number")[i])
        THEN 5 ELSE 0
      validation_bonus == pan_bonus + aadhaar_bonus
  IN  IF required = <<>> THEN [num |-> 75, den |-> 1]
      ELSE [num |-> found * 100 + validation_bonus * Len(required), den |-> Len(required)]

\* the score of calculate_quality_score for a given extraction result, as the
\* exact fraction num / den
score_of(ents, doc_type) ==
  LET required == required_entities(doc_type)
      found == Cardinality({i \in 1..Len(required) : has_entity(ents, required[i])})
      pan_bonus ==
        IF /\ has_entity(ents, "pan_number")
           /\ \E i \in 1..Len(entity_values(ents, "pan_number")) :
                 validate_pan(entity_values(ents, "pan_number")[i])
        THEN 5 ELSE 0
      aadhaar_bonus ==
        IF /\ has_entity(ents, "aadhaar_number")
           /\ \E i \in 1..Len(entity_values(ents, "aadhaar_number")) :
                 validate_aadhaar(entity_values(ents, "aadhaar_number")[i])
        THEN 5 ELSE 0
      validation_bonus == pan_bonus + aadhaar_bonus
      \* completeness + validation_bonus = (found * 100 + bonus * len) / len
      num == found * 100 + validation_bonus * Len(required)
  IN  IF required = <<>> THEN [num |-> 75, den |-> 1]
      ELSE IF num > 100 * Len(required) THEN [num |-> 100, den |-> 1]
      ELSE [num |-> num, den |-> Len(required)]

\* calculate_quality_score
calculate_quality_score(text, doc_type) == score_of(extract_entities(text), doc_type)

----------------------------------------------------------------------------
(* src/database.py: each function opens a connection (which may raise),    *)
(* runs its statements in one transaction inside try/except, and reports   *)
(* a failed statement as False.  An outcome is "ok", "error" (a statement  *)
(* or the commit fails, the transaction is rolled back) or "raise"         *)
(* (get_connection itself fails, outside the try).                         *)

Outcomes == {"ok", "error", "raise"}

\* save_document: one INSERT; the id is the primary key
save_document(tbl, row, outcome) ==
  LET inserted == outcome = "ok" /\ ~\E r \in tbl : r.id = row.id
  IN  [raised |-> outcome = "raise",
       ret |-> inserted,
       documents |-> IF inserted THEN tbl \cup {row} ELSE tbl]

\* the rows save_entities inserts: one per value, type by type
RECURSIVE entity_rows(_, _)
entity_rows(doc_id, ents) ==
  IF ents = <<>> THEN <<>>
  ELSE list([i \in 1..Len(Head(ents).values) |->
               [document_id |-> doc_id,
                entity_type |-> Head(ents).entity_type,
                entity_value |-> Head(ents).values[i]]])
       \o entity_rows(doc_id, Tail(ents))

\* save_entities: the table has no enforced foreign key (SQLite leaves
\* foreign keys off unless the connection turns them on)
save_entities(tbl, doc_id, ents, outcome) ==
  [raised |-> outcome = "raise",
   ret |-> outcome = "ok",
   entities |-> IF outcome = "ok" THEN tbl \o entity_rows(doc_id, ents) ELSE tbl]

\* save_chunks: one row per pair of zip(chunks, embedding_ids)
save_chunks(tbl, doc_id, chunks, embedding_ids, outcome) ==
  [raised |-> outcome = "raise",
   ret |-> outcome = "ok",
   document_chunks |->
     IF outcome = "ok"
     THEN tbl \o list([i \in 1..IntMin(Len(chunks), Len(embedding_ids)) |->
                         [document_id |-> doc_id,
                          chunk_index |-> chunks[i][2],
                          chunk_text |-> chunks[i][1],
                          embedding_id |-> embedding_ids[i]]])
     ELSE tbl]

\* delete_document: the three DELETEs commit together or not at all
delete_document(docs, ents, chks, doc_id, outcome) ==
  IF outcome = "ok"
  THEN [raised |-> FALSE, ret |-> TRUE,
        documents |-> {r \in docs : r.id # doc_id},
        entities |-> SelectSeq(ents, LAMBDA r : r.document_id # doc_id),
        document_chunks |-> SelectSeq(chks, LAMBDA r : r.document_id # doc_id)]
  ELSE [raised |-> outcome = "raise", ret |-> FALSE,
        documents |-> docs, entities |-> ents, document_chunks |-> chks]

----------------------------------------------------------------------------
(* src/rag_engine.py: the retrieval index                                  *)

\* a variant of embedding_id_of that leaves the document id out of the id
embedding_id_without_document(doc_id, chunk_index) == "chunk_" \o ToString(chunk_index)

\* f"{doc_id}_chunk_{chunk_index}"
embedding_id_of(doc_id, chunk_index) == doc_id \o "_chunk_" \o ToString(chunk_index)

\* one collection.add of add_document's loop: the record of one chunk under
\* its embedding id; an id already in the collection keeps its record
add_chunk(coll, doc_id, chunk, metadata) ==
  LET embedding_id == embedding_id_of(doc_id, chunk[2])
      record == [document |-> chunk[1],
                 metadata |-> [filename |-> metadata.filename,
                               doc_type |-> metadata.doc_type,
                               quality_score |-> metadata.quality_score,
                               document_id |-> doc_id,
                               chunk_index |-> chunk[2]]]
  IN  IF embedding_id \in DOMAIN coll THEN coll
      ELSE [id \in DOMAIN coll \cup {embedding_id} |->
              IF id = embedding_id THEN record ELSE coll[id]]

\* the collection after the first n iterations of add_document's loop
RECURSIVE add_chunks(_, _, _, _, _)
add_chunks(coll, doc_id, chunks, metadata, n) ==
  IF n = 0 THEN coll
  ELSE add_chunk(add_chunks(coll, doc_id, chunks, metadata, n - 1),
                 doc_id, chunks[n], metadata)

\* add_document.  fail_at = -1: every call succeeds; fail_at = k >= 0: the
\* embedder (k = 0) or the (k+1)-th collection.add raises, after k records
\* have been written
add_document(coll, doc_id, chunks, metadata, fail_at) ==
  IF chunks = <<>> THEN [raised |-> FALSE, embedding_ids |-> <<>>, collection |-> coll]
  ELSE IF fail_at >= 0 /\ fail_at < Len(chunks)
  THEN [raised |-> TRUE, embedding_ids |-> <<>>,
        collection |-> add_chunks(coll, doc_id, chunks, metadata, fail_at)]
  ELSE [raised |-> FALSE,
        embedding_ids |-> list([i \in 1..Len(chunks) |->
                                  embedding_id_of(doc_id, chunks[i][2])]),
        collection |-> add_chunks(coll, doc_id, chunks, metadata, Len(chunks))]

\* collection.get(where={"document_id": doc_id})['ids']
ids_of_document(coll, doc_id) ==
  {id \in DOMAIN coll : coll[id].metadata.document_id = doc_id}

\* a variant of delete_document_embeddings for which a document without
\* records is an error
delete_document_embeddings_strict(coll, doc_id, store_ok) ==
  IF store_ok /\ \E id \in DOMAIN coll : coll[id].metadata.document_id = doc_id
  THEN [ret |-> TRUE,
        collection |-> [id \in {i \in DOMAIN coll : coll[i].metadata.document_id # doc_id}
                          |-> coll[id]]]
  ELSE [ret |-> FALSE, collection |-> coll]

\* a variant of delete_document_embeddings that reports True whether or not
\* the store removed the records
delete_document_embeddings_unchecked(coll, doc_id, store_ok) ==
  [ret |-> TRUE,
   collection |-> IF store_ok
                  THEN [id \in {i \in DOMAIN coll : coll[i].metadata.document_id # doc_id}
                          |-> coll[id]]
                  ELSE coll]

\* delete_document_embeddings: any exception is caught and reported as False
delete_document_embeddings(coll, doc_id, store_ok) ==
  IF store_ok
  THEN [ret |-> TRUE,
        collection |-> [id \in DOMAIN coll \ ids_of_document(coll, doc_id) |-> coll[id]]]
  ELSE [ret |-> FALSE, collection |-> coll]

----------------------------------------------------------------------------
(* app.py: the upload handler                                              *)

DOCUMENTS_DIR == "data/documents/"

\* the uploads of the model: a file name (stem and suffix) and a body
FileNames ==
  { [stem |-> "kyc", suffix |-> ".txt"],
    [stem |-> "loan", suffix |-> ".PDF"],
    [stem |-> "setup", suffix |-> ".exe"] }

RECURSIVE repeat(_, _)
repeat(t, n) == IF n = 0 THEN <<>> ELSE t \o repeat(t, n - 1)

Sentence ==
  <<"L", "o", "a", "n", " ", "a", "m", "o", "u", "n", "t", " ", "R", "s", ".", " ",
    "5", ",", "0", "0", "0", " ", "p", "a", "i", "d", " ", "0", "1", "/", "0", "4",
    "/", "2", "0", "2", "3", ".", "\n">>

Repeats == 14

\* the bodies a reader can yield: nothing but whitespace, and a text longer
\* than one chunk
Bodies == [blank |-> <<" ", "\n">>, long |-> repeat(Sentence, Repeats)]

BodyKeys == {"blank", "long"}

\* uploaded_file.name
name_of(uploaded_file) == uploaded_file.name.stem \o uploaded_file.name.suffix

\* lines 102-116 of process_uploaded_file: what is derived from the text
analyse(text) ==
  LET doc_type == classify_document(text)
      ents == extract_entities(text)
  IN  [text |-> text,
       doc_type |-> doc_type,
       entities |-> ents,
       total_entities |-> total_entities(ents),
       quality_score |-> score_of(ents, doc_type),
       chunks |-> chunk_text(text, CHUNK_SIZE, CHUNK_OVERLAP)]

\* what the reader returns for each body of the model
Read == [blank |-> extract_text_from_file(Bodies.blank),
         long |-> extract_text_from_file(Bodies.long)]

\* analyse, evaluated once for each body of the model
Analysed == [blank |-> analyse(Read.blank), long |-> analyse(Read.long)]

\* what goes wrong during one ingestion: the outcome of each step that
\* touches the disk, a reader or a store
FaultPlans ==
  [write : {"ok", "raise"}, extract : {"ok", "raise"},
   save_document : Outcomes, save_entities : Outcomes,
   add_document : -1..1, save_chunks : Outcomes]

\* the steps of process_uploaded_file, from the current state, given what the
\* reader yields (read) and what is derived from the text (a): the state they
\* leave and what the caller sees
process_steps(uploaded_file, doc_id, fault, read, a) ==
  LET before == [files |-> files, documents |-> documents, entities |-> entities,
                 document_chunks |-> document_chunks, collection |-> collection]
      raise(state) == [state |-> state, raised |-> TRUE, result |-> <<>>]
      file_path == DOCUMENTS_DIR \o name_of(uploaded_file)
      written == [before EXCEPT !.files = @ \cup {file_path}]
      extracted == extract_text(uploaded_file.name.suffix, read, fault.extract = "ok")
      doc == save_document(before.documents,
                           [id |-> doc_id, filename |-> name_of(uploaded_file),
                            file_path |-> file_path, doc_type |-> a.doc_type,
                            status |-> "completed", extracted_text |-> a.text,
                            quality_score |-> a.quality_score,
                            entity_count |-> a.total_entities],
                           fault.save_document)
      with_doc == [written EXCEPT !.documents = doc.documents]
      ent == save_entities(before.entities, doc_id, a.entities, fault.save_entities)
      with_ent == [with_doc EXCEPT !.entities = ent.entities]
      added == add_document(before.collection, doc_id, a.chunks,
                            [filename |-> name_of(uploaded_file), doc_type |-> a.doc_type,
                             quality_score |-> a.quality_score],
                            fault.add_document)
      with_vec == [with_ent EXCEPT !.collection = added.collection]
      chk == save_chunks(before.document_chunks, doc_id, a.chunks, added.embedding_ids,
                         fault.save_chunks)
      with_chk == [with_vec EXCEPT !.document_chunks = chk.document_chunks]
  IN  IF fault.write = "raise" THEN raise(before)
      ELSE IF extracted.raised THEN raise(written)
      ELSE IF doc.raised THEN raise(written)
      ELSE IF ent.raised THEN raise(with_doc)
      ELSE IF added.raised THEN raise(with_vec)
      ELSE IF chk.raised THEN raise(with_vec)
      ELSE [state |-> with_chk, raised |-> FALSE,
            result |-> [doc_id |-> doc_id, filename |-> name_of(uploaded_file),
                        doc_type |-> a.doc_type, entities |-> a.entities,
                        quality_score |-> a.quality_score,
                        chunks_created |-> Len(a.chunks)]]

\* process_uploaded_file
process_uploaded_file(uploaded_file, doc_id, fault) ==
  process_steps(uploaded_file, doc_id, fault, Read[uploaded_file.body],
                Analysed[uploaded_file.body])

SUPPORTED_EXTENSIONS == {".pdf", ".txt", ".docx"}

\* a plan gives an outcome only to the steps the ingestion reaches: a step
\* after the one that raises has none, and add_document can fail only at one
\* of its chunks
plan_fits(uploaded_file, fault) ==
  LET readable == suffix_lower(uploaded_file.name.suffix) \in SUPPORTED_EXTENSIONS
      stop1 == fault.write = "raise"
      stop2 == stop1 \/ ~readable \/ fault.extract = "raise"
      stop3 == stop2 \/ fault.save_document = "raise"
      stop4 == stop3 \/ fault.save_entities = "raise"
      stop5 == stop4 \/ fault.add_document >= 0
  IN  /\ (stop1 \/ ~readable) => fault.extract = "ok"
      /\ stop2 => fault.save_document = "ok"
      /\ stop3 => fault.save_entities = "ok"
      /\ stop4 => fault.add_document = -1
      /\ fault.add_document < Len(Analysed[uploaded_file.body].chunks)
      /\ stop5 => fault.save_chunks = "ok"

\* str(uuid.uuid4()): a fresh id at every call
uuid4(n) == "doc" \o ToString(n)

MaxUploads == 2

NoCall == [op |-> "none", doc_id |-> "", request |-> <<>>, fault |-> <<>>,
           raised |-> FALSE, result |-> <<>>]

\* render_sidebar, the "Process Document" button: process_uploaded_file
\* inside try/except
Upload ==
  /\ last.op = "none"
  /\ next_uuid < MaxUploads
  /\ \E name \in FileNames, body \in BodyKeys, fault \in FaultPlans :
       LET uploaded_file == [name |-> name, body |-> body]
           doc_id == uuid4(next_uuid + 1)
           done == process_uploaded_file(uploaded_file, doc_id, fault)
       IN  /\ plan_fits(uploaded_file, fault)
           /\ files' = done.state.files
           /\ documents' = done.state.documents
           /\ entities' = done.state.entities
           /\ document_chunks' = done.state.document_chunks
           /\ collection' = done.state.collection
           /\ next_uuid' = next_uuid + 1
           /\ UNCHANGED <<concurrent, functions, probes, _ollama_available, purged>>
           /\ last' = [op |-> "ingest", doc_id |-> doc_id, request |-> uploaded_file,
                       fault |-> fault, raised |-> done.raised, result |-> done.result]

\* render_documents_page, the "Delete" button of a listed document
Delete ==
  \E doc \in documents, store_ok \in BOOLEAN, outcome \in Outcomes, removed \in BOOLEAN :
     LET vec == delete_document_embeddings(collection, doc.id, store_ok)
         del == delete_document(documents, entities, document_chunks, doc.id, outcome)
     IN  /\ last.op = "none"
         /\ del.raised => removed = FALSE
         /\ collection' = vec.collection
         /\ documents' = del.documents
         /\ entities' = del.entities
         /\ document_chunks' = del.document_chunks
         \* os.remove(doc['file_path']) inside try/except: pass
         /\ files' = IF ~del.raised /\ removed THEN files \ {doc.file_path} ELSE files
         /\ next_uuid' = next_uuid
         /\ UNCHANGED <<concurrent, functions, probes, _ollama_available, purged>>
         /\ last' = [op |-> "delete", doc_id |-> doc.id, request |-> <<>>,
                     fault |-> [vectors |-> store_ok, rows |-> outcome],
                     raised |-> del.raised,
                     \* both return values are dropped; st.success("Document deleted!")
                     result |-> [embeddings_deleted |-> vec.ret, rows_deleted |-> del.ret,
                                 message |-> IF del.raised THEN "" ELSE "Document deleted!"]]

\* the lazily initialised providers: get_rag_engine, RAGEngine.embedder and
\* RAGEngine.collection
Providers == {"get_rag_engine", "embedder", "collection"}

NumThreads == 2

\* the requests (Streamlit sessions) that share the module's engine
Threads == 1..NumThreads

\* the two add_document calls whose loops interleave
Callers == {1, 2}

NoChunking == [pc |-> "idle", raw |-> <<>>, text |-> <<>>, chunk_size |-> 0, overlap |-> 0,
               start |-> 0, chunk_index |-> 0, chunks |-> <<>>, windows |-> <<>>]

NoExtraction == [pc |-> "idle", text |-> <<>>, doc_type |-> "", entities |-> <<>>,
                 score |-> [num |-> 0, den |-> 1]]

NoClassification == [pc |-> "idle", text |-> <<>>, doc_type |-> ""]

NoAdd == [pc |-> "idle", doc_id |-> "", chunks |-> <<>>, metadata |-> <<>>, i |-> 0,
          embedding_ids |-> <<>>]

Init ==
  /\ files = {}
  /\ documents = {}
  /\ entities = <<>>
  /\ document_chunks = <<>>
  /\ collection = <<>>
  /\ next_uuid = 0
  /\ _ollama_available = "None"
  /\ purged = {}
  /\ last = NoCall
  /\ probes = <<>>
  /\ _rag_engine = 0
  /\ _embedder = 0
  /\ _collection = 0
  /\ constructed = [p \in Providers |-> 0]
  /\ threads = [t \in Threads |-> [pc |-> "idle", provider |-> "", got |-> [p \in Providers |-> 0]]]
  /\ adders = [c \in Callers |-> NoAdd]
  /\ chunker = NoChunking
  /\ extraction = NoExtraction
  /\ classified = NoClassification

\* the call has returned and its caller has taken the result: the handlers
\* and the engine's methods run one at a time, each to completion
Return ==
  /\ last.op # "none"
  /\ last' = NoCall
  /\ UNCHANGED <<concurrent, functions, probes, files, documents, entities, document_chunks, collection, next_uuid,
                 _ollama_available, purged>>

Next == Upload \/ Delete \/ Return

Spec == Init /\ [][Next]_vars

----------------------------------------------------------------------------
(* src/rag_engine.py: search, generate_response, query                     *)

\* the orders in which a nearest-neighbour search can return n of the ids:
\* the embedding model decides the distances, so every order is possible
RECURSIVE rankings(_, _)
rankings(ids, n) ==
  IF n = 0 \/ ids = {} THEN {<<>>}
  ELSE UNION {{<<id>> \o rest : rest \in rankings(ids \ {id}, n - 1)} : id \in ids}

\* search.  embed_ok, store_ok: whether embedder.encode and collection.query
\* return; ranking, distances: what the vector store answers
search(coll, top_k, filter_doc_type, embed_ok, store_ok, ranking, distances) ==
  IF ~embed_ok \/ ~store_ok THEN [raised |-> TRUE, results |-> <<>>]
  ELSE [raised |-> FALSE,
        results |-> list([i \in 1..Len(ranking) |->
                            [text |-> coll[ranking[i]].document,
                             metadata |-> coll[ranking[i]].metadata,
                             distance |-> distances[i],
                             id |-> ranking[i]]])]

\* the ids collection.query may rank: those whose doc_type passes the where
\* filter ("" is no filter: `if filter_doc_type:`)
matching_ids(coll, filter_doc_type) ==
  {id \in DOMAIN coll :
     filter_doc_type = "" \/ coll[id].metadata.doc_type = filter_doc_type}

\* what ollama.list() answers: it raises, or it lists these model names
OllamaProbes ==
  { [raised |-> TRUE, model_names |-> <<>>],
    [raised |-> FALSE, model_names |-> <<>>],
    [raised |-> FALSE, model_names |-> <<"phi3:mini">>] }

\* a variant of check_ollama_available that caches nothing when the probe
\* raises
check_ollama_available_retrying(cached, probe) ==
  IF cached # "None"
  THEN [value |-> cached = "True", cache |-> cached, probed |-> FALSE]
  ELSE IF probe.raised
  THEN [value |-> FALSE, cache |-> "None", probed |-> TRUE]
  ELSE [value |-> Len(probe.model_names) > 0,
        cache |-> IF Len(probe.model_names) > 0 THEN "True" ELSE "False",
        probed |-> TRUE]

\* check_ollama_available: the cached value if there is one, else the probe,
\* which is cached.  any(preferred in name ...) or len(model_names) > 0 is
\* len(model_names) > 0; an exception of the probe is cached as False
check_ollama_available(cached, probe) ==
  IF cached # "None"
  THEN [value |-> cached = "True", cache |-> cached, probed |-> FALSE]
  ELSE IF ~probe.raised /\ Len(probe.model_names) > 0
  THEN [value |-> TRUE, cache |-> "True", probed |-> TRUE]
  ELSE [value |-> FALSE, cache |-> "False", probed |-> TRUE]

ExcerptCount == 3

ExcerptChars == 500

\* an answer is the list of the pieces it is concatenated from
NoDocumentsMessage == <<"No relevant documents found for your query.">>

\* the excerpts of the first n context chunks, numbered from 1
RECURSIVE excerpts(_, _)
excerpts(context_chunks, n) ==
  IF n = 0 THEN <<>>
  ELSE excerpts(context_chunks, n - 1)
       \o <<"**", ToString(n), ". From ", context_chunks[n].metadata.filename, ":**\n">>
       \o slice(context_chunks[n].text, 0, ExcerptChars) \o <<"...\n\n">>

\* a variant of _fallback_response that lists every context chunk
_fallback_response_listing_all(query, context_chunks) ==
  IF context_chunks = <<>> THEN NoDocumentsMessage
  ELSE <<"**Ollama LLM not available. Here are the relevant document excerpts:**\n\n">>
       \o excerpts(context_chunks, Len(context_chunks))
       \o <<"\n*Install and run Ollama to get AI-powered answers: https://ollama.ai*">>

\* _fallback_response
_fallback_response(query, context_chunks) ==
  IF context_chunks = <<>> THEN NoDocumentsMessage
  ELSE <<"**Ollama LLM not available. Here are the relevant document excerpts:**\n\n">>
       \o excerpts(context_chunks, IntMin(ExcerptCount, Len(context_chunks)))
       \o <<"\n*Install and run Ollama to get AI-powered answers: https://ollama.ai*">>

\* what ollama.chat does: "ok" (it answers `content`), or it fails
ChatOutcomes == {"ok", "unreachable", "timeout", "malformed"}

\* a variant of generate_response whose backend call is not inside a try
generate_response_unguarded(query, context_chunks, cached, probe, chat, content) ==
  LET avail == check_ollama_available(cached, probe)
  IN  IF ~avail.value
      THEN [raised |-> FALSE, cache |-> avail.cache, available |-> FALSE,
            backend_called |-> FALSE,
            answer |-> _fallback_response(query, context_chunks)]
      ELSE [raised |-> chat # "ok", cache |-> avail.cache, available |-> TRUE,
            backend_called |-> TRUE, answer |-> content]

\* generate_response: every exception of the backend call is caught
generate_response(query, context_chunks, cached, probe, chat, content) ==
  LET avail == check_ollama_available(cached, probe)
  IN  IF ~avail.value
      THEN [raised |-> FALSE, cache |-> avail.cache, available |-> FALSE,
            backend_called |-> FALSE,
            answer |-> _fallback_response(query, context_chunks)]
      ELSE IF chat = "ok"
      THEN [raised |-> FALSE, cache |-> avail.cache, available |-> TRUE,
            backend_called |-> TRUE, answer |-> content]
      ELSE [raised |-> FALSE, cache |-> avail.cache, available |-> TRUE,
            backend_called |-> TRUE,
            answer |-> _fallback_response(query, context_chunks)]

\* a variant of sources_of that lists every result, also one whose filename
\* was listed before
sources_of_every_result(results) ==
  list([k \in 1..Len(results) |->
          [filename |-> results[k].metadata.filename,
           doc_type |-> results[k].metadata.doc_type,
           relevance |-> 1000 - results[k].distance]])

\* the sources list of query: the first result of each filename
sources_of(results) ==
  LET first == {i \in 1..Len(results) :
                  \A j \in 1..(i - 1) :
                     results[j].metadata.filename # results[i].metadata.filename}
      pick[k \in 0..Len(results)] ==
        IF k = 0 THEN <<>>
        ELSE IF k \in first
        THEN Append(pick[k - 1],
                    [filename |-> results[k].metadata.filename,
                     doc_type |-> results[k].metadata.doc_type,
                     \* round(1 - distance, 3), in thousandths
                     relevance |-> 1000 - results[k].distance])
        ELSE pick[k - 1]
  IN  pick[Len(results)]

\* query: search, then generate_response; neither call is inside a try
query(coll, question, top_k, filter_doc_type, embed_ok, store_ok, ranking, distances, cached, probe, chat, content) ==
  LET found == search(coll, top_k, filter_doc_type, embed_ok, store_ok, ranking, distances)
      gen == generate_response(question, found.results, cached, probe, chat, content)
  IN  IF found.raised
      THEN [raised |-> TRUE, cache |-> cached, result |-> <<>>]
      ELSE IF gen.raised
      THEN [raised |-> TRUE, cache |-> gen.cache, result |-> <<>>]
      ELSE [raised |-> FALSE, cache |-> gen.cache,
            result |-> [answer |-> gen.answer,
                        sources |-> sources_of(found.results),
                        chunks_retrieved |-> Len(found.results),
                        results |-> found.results,
                        available |-> gen.available,
                        backend_called |-> gen.backend_called]]

----------------------------------------------------------------------------
(* The RAGEngine object used directly: its methods called in any order     *)

EngineDocIds == {"doc1", "doc2"}

\* chunk lists as chunk_text numbers them
EngineChunkLists ==
  { <<>>,
    << <<<<"p", "a", "n">>, 0>> >>,
    << <<<<"p", "a", "n">>, 0>>, <<<<"k", "y", "c", ".">>, 1>> >> }

EngineMetadata ==
  { [filename |-> "kyc.txt", doc_type |-> "kyc_document",
     quality_score |-> [num |-> 130, den |-> 4]],
    [filename |-> "loan.PDF", doc_type |-> "other",
     quality_score |-> [num |-> 75, den |-> 1]] }

Questions == {<<"p", "a", "n", "?">>}

MaxTopK == 3

\* distances, in thousandths
Distances == {250, 900}

LlmContent == <<"The PAN is in kyc.txt.">>

\* rag_engine.add_document for a document that has no record in the index (a
\* new uuid, or a document whose records were deleted)
EngineAdd ==
  \E doc_id \in EngineDocIds, chunks \in EngineChunkLists, metadata \in EngineMetadata,
     fail_at \in -1..1 :
     LET added == add_document(collection, doc_id, chunks, metadata, fail_at)
     IN  /\ last.op = "none"
         /\ ids_of_document(collection, doc_id) = {}
         /\ fail_at < Len(chunks)
         /\ collection' = added.collection
         /\ purged' = IF ids_of_document(added.collection, doc_id) # {}
                      THEN {p \in purged : p.doc_id # doc_id} ELSE purged
         /\ last' = [op |-> "add", doc_id |-> doc_id,
                     request |-> [chunks |-> chunks, metadata |-> metadata],
                     fault |-> fail_at, raised |-> added.raised,
                     result |-> added.embedding_ids]
         /\ UNCHANGED <<concurrent, functions, probes, files, documents, entities, document_chunks, next_uuid,
                        _ollama_available>>

\* rag_engine.delete_document_embeddings
EngineDelete ==
  \E doc_id \in EngineDocIds, store_ok \in BOOLEAN :
     LET gone == delete_document_embeddings(collection, doc_id, store_ok)
     IN  /\ last.op = "none"
         /\ collection' = gone.collection
         /\ purged' = IF gone.ret
                      THEN {p \in purged : p.doc_id # doc_id}
                           \cup {[doc_id |-> doc_id,
                                  removed |-> Cardinality(ids_of_document(collection, doc_id))]}
                      ELSE purged
         /\ last' = [op |-> "delete_embeddings", doc_id |-> doc_id, request |-> <<>>,
                     fault |-> store_ok, raised |-> FALSE, result |-> gone.ret]
         /\ UNCHANGED <<concurrent, functions, probes, files, documents, entities, document_chunks, next_uuid,
                        _ollama_available>>

\* non-decreasing lists of n distances
RECURSIVE ascending(_)
ascending(n) ==
  IF n = 0 THEN {<<>>}
  ELSE {ds \in {Append(head, d) : head \in ascending(n - 1), d \in Distances} :
          n = 1 \/ ds[n - 1] <= ds[n]}

FilterTypes == {"", "kyc_document"}

\* what the providers do during one search or query
SearchFaults == [embed_ok : BOOLEAN, store_ok : BOOLEAN]

\* the answers the vector store can give: the top_k nearest of the matching
\* records, in some order, with their distances
store_answers(coll, top_k, filter_doc_type) ==
  LET ids == matching_ids(coll, filter_doc_type)
      n == IntMin(top_k, Cardinality(ids))
  IN  {[ranking |-> r, distances |-> ds] : r \in rankings(ids, n), ds \in ascending(n)}

\* rag_engine.search
EngineSearch ==
  /\ last.op = "none"
  /\ \E q \in Questions, top_k \in 1..MaxTopK, filter_doc_type \in FilterTypes,
        fault \in SearchFaults :
        \E ans \in IF fault.embed_ok /\ fault.store_ok
                   THEN store_answers(collection, top_k, filter_doc_type)
                   ELSE {[ranking |-> <<>>, distances |-> <<>>]} :
           LET found == search(collection, top_k, filter_doc_type, fault.embed_ok,
                               fault.store_ok, ans.ranking, ans.distances)
           IN  /\ last' = [op |-> "search", doc_id |-> "",
                           request |-> [question |-> q, top_k |-> top_k,
                                        filter_doc_type |-> filter_doc_type],
                           fault |-> fault, raised |-> found.raised,
                           result |-> [results |-> found.results]]
               /\ UNCHANGED <<concurrent, functions, probes, files, documents, entities, document_chunks, collection,
                              next_uuid, _ollama_available, purged>>

\* the probe is made only while nothing is cached
probes_for(cached) ==
  IF cached = "None" THEN OllamaProbes ELSE {[raised |-> FALSE, model_names |-> <<>>]}

\* the backend is called only when it was found available
chats_for(cached, probe) ==
  IF check_ollama_available(cached, probe).value THEN ChatOutcomes ELSE {"ok"}

\* rag_engine.query
EngineQuery ==
  /\ last.op = "none"
  /\ \E q \in Questions, top_k \in 1..MaxTopK, filter_doc_type \in FilterTypes,
        fault \in SearchFaults :
        \E ans \in IF fault.embed_ok /\ fault.store_ok
                   THEN store_answers(collection, top_k, filter_doc_type)
                   ELSE {[ranking |-> <<>>, distances |-> <<>>]} :
           \E probe \in IF fault.embed_ok /\ fault.store_ok
                        THEN probes_for(_ollama_available)
                        ELSE {[raised |-> FALSE, model_names |-> <<>>]} :
              \E chat \in IF fault.embed_ok /\ fault.store_ok
                          THEN chats_for(_ollama_available, probe) ELSE {"ok"} :
                 LET out == query(collection, q, top_k, filter_doc_type, fault.embed_ok,
                                  fault.store_ok, ans.ranking, ans.distances,
                                  _ollama_available, probe, chat, LlmContent)
                 IN  /\ _ollama_available' = out.cache
                     /\ probes' = IF fault.embed_ok /\ fault.store_ok
                                     /\ _ollama_available = "None"
                                  THEN Append(probes,
                                              check_ollama_available(_ollama_available,
                                                                     probe).value)
                                  ELSE probes
                     /\ last' = [op |-> "query", doc_id |-> "",
                                 request |-> [question |-> q, top_k |-> top_k,
                                              filter_doc_type |-> filter_doc_type],
                                 fault |-> [embed_ok |-> fault.embed_ok,
                                            store_ok |-> fault.store_ok, chat |-> chat],
                                 raised |-> out.raised, result |-> out.result]
                     /\ UNCHANGED <<concurrent, functions, files, documents, entities, document_chunks,
                                    collection, next_uuid, purged>>

NextEngine == EngineAdd \/ EngineDelete \/ EngineSearch \/ EngineQuery \/ Return

SpecEngine == Init /\ [][NextEngine]_vars

----------------------------------------------------------------------------
(* The backend side of the engine on its own: check_ollama_available,     *)
(* generate_response and get_collection_stats called in any order         *)

\* get_collection_stats: an exception of collection.count() is returned as
\* {'error': ...}; else check_ollama_available is called twice
get_collection_stats(coll, cached, probe, store_ok) ==
  LET first == check_ollama_available(cached, probe)
      second == check_ollama_available(first.cache, probe)
  IN  IF ~store_ok
      THEN [cache |-> cached, probed |-> FALSE, failed |-> TRUE, total_chunks |-> 0,
            ollama_available |-> FALSE, has_model |-> FALSE]
      ELSE [cache |-> second.cache, probed |-> first.probed \/ second.probed,
            failed |-> FALSE, total_chunks |-> Cardinality(DOMAIN coll),
            ollama_available |-> first.value, has_model |-> second.value]

MaxContext == 4

\* the context chunks handed to generate_response: two short ones of one
\* file, and one longer than an excerpt
ContextChunks ==
  { [text |-> <<"p", "a", "n">>, distance |-> 250, id |-> "doc1_chunk_0",
     metadata |-> [filename |-> "kyc.txt", doc_type |-> "kyc_document",
                   document_id |-> "doc1", chunk_index |-> 0]],
    [text |-> <<"k", "y", "c", ".">>, distance |-> 500, id |-> "doc1_chunk_1",
     metadata |-> [filename |-> "kyc.txt", doc_type |-> "kyc_document",
                   document_id |-> "doc1", chunk_index |-> 1]],
    [text |-> Bodies.long, distance |-> 900, id |-> "doc2_chunk_0",
     metadata |-> [filename |-> "loan.PDF", doc_type |-> "loan_application",
                   document_id |-> "doc2", chunk_index |-> 0]] }

ContextLists == UNION {[1..n -> ContextChunks] : n \in 0..MaxContext}

\* the probe history after a call that found `value`
probed_with(was_probed, value) == IF was_probed THEN Append(probes, value) ELSE probes

\* rag_engine.check_ollama_available
EngineCheck ==
  /\ last.op = "none"
  /\ \E probe \in probes_for(_ollama_available) :
        LET got == check_ollama_available(_ollama_available, probe)
        IN  /\ _ollama_available' = got.cache
            /\ probes' = probed_with(got.probed, got.value)
            /\ last' = [op |-> "check_ollama", doc_id |-> "", request |-> <<>>,
                        fault |-> <<>>, raised |-> FALSE,
                        result |-> [available |-> got.value]]
  /\ UNCHANGED <<concurrent, functions, files, documents, entities, document_chunks,
                 collection, next_uuid, purged>>

\* rag_engine.generate_response
EngineGenerate ==
  /\ last.op = "none"
  /\ \E q \in Questions, context_chunks \in ContextLists,
        probe \in probes_for(_ollama_available) :
        \E chat \in chats_for(_ollama_available, probe) :
           LET gen == generate_response(q, context_chunks, _ollama_available, probe,
                                        chat, LlmContent)
           IN  /\ _ollama_available' = gen.cache
               /\ probes' = probed_with(_ollama_available = "None", gen.available)
               /\ last' = [op |-> "generate", doc_id |-> "",
                           request |-> [question |-> q, context_chunks |-> context_chunks],
                           fault |-> [chat |-> chat], raised |-> gen.raised,
                           result |-> [answer |-> gen.answer, available |-> gen.available,
                                       backend_called |-> gen.backend_called]]
  /\ UNCHANGED <<concurrent, functions, files, documents, entities, document_chunks,
                 collection, next_uuid, purged>>

\* rag_engine.get_collection_stats
EngineStats ==
  /\ last.op = "none"
  /\ \E store_ok \in BOOLEAN :
        \E probe \in IF store_ok THEN probes_for(_ollama_available)
                     ELSE {[raised |-> FALSE, model_names |-> <<>>]} :
           LET stats == get_collection_stats(collection, _ollama_available, probe, store_ok)
           IN  /\ _ollama_available' = stats.cache
               /\ probes' = probed_with(stats.probed, stats.ollama_available)
               /\ last' = [op |-> "stats", doc_id |-> "", request |-> <<>>,
                           fault |-> [store_ok |-> store_ok], raised |-> FALSE,
                           result |-> [failed |-> stats.failed,
                                       total_chunks |-> stats.total_chunks,
                                       available |-> stats.ollama_available,
                                       has_model |-> stats.has_model]]
  /\ UNCHANGED <<concurrent, functions, files, documents, entities, document_chunks,
                 collection, next_uuid, purged>>

NextBackend == EngineCheck \/ EngineGenerate \/ EngineStats \/ Return

SpecBackend == Init /\ [][NextBackend]_vars

----------------------------------------------------------------------------
(* The lazy providers used by several requests at once.  Each provider is  *)
(* "if field is None: field = construct(); return field", with no lock.    *)

\* the field a provider tests and returns
field(p) ==
  CASE p = "get_rag_engine" -> _rag_engine
    [] p = "embedder" -> _embedder
    [] p = "collection" -> _collection

app_state == <<files, documents, entities, document_chunks, collection, next_uuid,
               _ollama_available, purged, last, probes>>

\* a request calls get_rag_engine() or reads the property
LazyCall(t) ==
  /\ threads[t].pc = "idle"
  /\ \E p \in Providers :
        threads' = [threads EXCEPT ![t].pc = "test", ![t].provider = p]
  /\ UNCHANGED <<app_state, functions, _rag_engine, _embedder, _collection, constructed, adders>>

\* "if field is None:"
LazyTest(t) ==
  /\ threads[t].pc = "test"
  /\ threads' = [threads EXCEPT
                   ![t].pc = IF field(threads[t].provider) = 0 THEN "construct" ELSE "return"]
  /\ UNCHANGED <<app_state, functions, _rag_engine, _embedder, _collection, constructed, adders>>

\* "field = RAGEngine()", "SentenceTransformer(EMBEDDING_MODEL)",
\* "get_or_create_collection(...)": a new object is made and stored
LazyConstruct(t) ==
  LET p == threads[t].provider
      made == constructed[p] + 1
  IN  /\ threads[t].pc = "construct"
      /\ constructed' = [constructed EXCEPT ![p] = made]
      /\ _rag_engine' = IF p = "get_rag_engine" THEN made ELSE _rag_engine
      /\ _embedder' = IF p = "embedder" THEN made ELSE _embedder
      /\ _collection' = IF p = "collection" THEN made ELSE _collection
      /\ threads' = [threads EXCEPT ![t].pc = "return"]
      /\ UNCHANGED <<app_state, functions, adders>>

\* "return field"
LazyReturn(t) ==
  LET p == threads[t].provider
  IN  /\ threads[t].pc = "return"
      /\ threads' = [threads EXCEPT ![t].pc = "idle", ![t].got[p] = field(p)]
      /\ UNCHANGED <<app_state, functions, _rag_engine, _embedder, _collection, constructed, adders>>

NextLazy ==
  \E t \in Threads : LazyCall(t) \/ LazyTest(t) \/ LazyConstruct(t) \/ LazyReturn(t)

SpecLazy == Init /\ [][NextLazy]_vars

----------------------------------------------------------------------------
(* Two add_document calls on the same index, their loops interleaved       *)

AddDocIds == {"doc1", "doc2", "doc1_chunk_0"}

\* add_document up to its loop: an empty chunk list returns at once
AddCall(c) ==
  /\ adders[c].pc = "idle"
  /\ \E doc_id \in AddDocIds, chunks \in EngineChunkLists, metadata \in EngineMetadata :
        adders' = [adders EXCEPT
                     ![c] = [pc |-> IF chunks = <<>> THEN "done" ELSE "loop",
                             doc_id |-> doc_id, chunks |-> chunks, metadata |-> metadata,
                             i |-> 0, embedding_ids |-> <<>>]]
  /\ UNCHANGED <<app_state, functions, _rag_engine, _embedder, _collection, constructed, threads>>

\* one iteration of add_document's loop: collection.add of the next chunk
AddChunk(c) ==
  LET a == adders[c]
      chunk == a.chunks[a.i + 1]
  IN  /\ a.pc = "loop"
      /\ a.i < Len(a.chunks)
      /\ collection' = add_chunk(collection, a.doc_id, chunk, a.metadata)
      /\ adders' = [adders EXCEPT
                      ![c].i = a.i + 1,
                      ![c].embedding_ids = Append(a.embedding_ids,
                                                  embedding_id_of(a.doc_id, chunk[2]))]
      /\ UNCHANGED <<files, documents, entities, document_chunks, next_uuid,
                     _ollama_available, purged, last, probes, _rag_engine, _embedder,
                     _collection, constructed, threads, functions>>

\* "return embedding_ids"
AddReturn(c) ==
  /\ adders[c].pc = "loop"
  /\ adders[c].i = Len(adders[c].chunks)
  /\ adders' = [adders EXCEPT ![c].pc = "done"]
  /\ UNCHANGED <<app_state, functions, _rag_engine, _embedder, _collection, constructed, threads>>

NextAdd == \E c \in Callers : AddCall(c) \/ AddChunk(c) \/ AddReturn(c)

SpecAdd == Init /\ [][NextAdd]_vars

----------------------------------------------------------------------------
(* chunk_text called on its own, its while loop taken one iteration at a   *)
(* time                                                                    *)

MaxTextLen == 6

MaxChunkSize == 5

MaxOverlap == 5

\* bound on the iterations followed of a loop that does not end
MaxWindows == 4

\* the characters of the texts: a letter, a sentence end, whitespace
ChunkAlphabet == {"a", ".", " "}

ChunkTexts == UNION {[1..n -> ChunkAlphabet] : n \in 0..MaxTextLen}

\* chunk_text up to its loop: a text that fits in one chunk is returned at once
ChunkCall ==
  /\ chunker.pc = "idle"
  /\ \E raw \in ChunkTexts, chunk_size \in 1..MaxChunkSize, overlap \in 0..MaxOverlap :
        LET text == strip(collapse_whitespace(raw))
            short == Len(text) <= chunk_size
        IN  chunker' = [pc |-> IF short THEN "done" ELSE "loop",
                        raw |-> raw, text |-> text,
                        chunk_size |-> chunk_size, overlap |-> overlap,
                        start |-> 0, chunk_index |-> 0,
                        chunks |-> IF short THEN chunk_text(raw, chunk_size, overlap)
                                   ELSE <<>>,
                        windows |-> <<>>]
  /\ UNCHANGED <<app_state, concurrent, extraction, classified>>

\* one iteration of the while loop
ChunkStep ==
  LET c == chunker
      end == chunk_end(c.text, c.chunk_size, c.start)
      chunk == strip(slice(c.text, c.start, end))
  IN  /\ c.pc = "loop"
      /\ c.start < Len(c.text)
      /\ Len(c.windows) < MaxWindows
      /\ chunker' =
           IF chunk_scan_raises(c.text, c.chunk_size, c.start)
           THEN [c EXCEPT !.pc = "raised"]
           ELSE [c EXCEPT
                   !.start = end - c.overlap,
                   !.chunk_index = IF chunk # <<>> THEN c.chunk_index + 1 ELSE c.chunk_index,
                   !.chunks = IF chunk # <<>> THEN Append(c.chunks, <<chunk, c.chunk_index>>)
                              ELSE c.chunks,
                   !.windows = Append(c.windows, [start |-> c.start, end |-> end])]
      /\ UNCHANGED <<app_state, concurrent, extraction, classified>>

\* "while start < len(text)" is false: return chunks
ChunkReturn ==
  /\ chunker.pc = "loop"
  /\ ~(chunker.start < Len(chunker.text))
  /\ chunker' = [chunker EXCEPT !.pc = "done"]
  /\ UNCHANGED <<app_state, concurrent, extraction, classified>>

NextChunk == ChunkCall \/ ChunkStep \/ ChunkReturn

SpecChunk == Init /\ [][NextChunk]_vars

----------------------------------------------------------------------------
(* extract_entities and calculate_quality_score called on their own        *)

MaxFragments == 3

\* the pieces the texts are put together from: a valid PAN, a PAN in lower
\* case whose holder type does not validate, a valid Aadhaar number, twelve
\* digits that start with 1, an amount and a date
Fragments ==
  << <<"A", "B", "C", "P", "E", "1", "2", "3", "4", "F">>,
     <<"a", "b", "c", "d", "e", "1", "2", "3", "4", "f">>,
     <<"2", "3", "4", "5", " ", "6", "7", "8", "9", " ", "0", "1", "2", "3">>,
     <<"1", "2", "3", "4", "5", "6", "7", "8", "9", "0", "1", "2">>,
     <<"R", "s", ".", " ", "5", "0", "0">>,
     <<"0", "1", "/", "0", "4", "/", "2", "0", "2", "3">> >>

\* the fragments of the list, each followed by a space
RECURSIVE joined(_)
joined(picks) ==
  IF picks = <<>> THEN <<>>
  ELSE Fragments[Head(picks)] \o <<" ">> \o joined(Tail(picks))

ExtractTexts ==
  {joined(picks) : picks \in UNION {[1..n -> 1..Len(Fragments)] : n \in 0..MaxFragments}}

\* the document types classify_document can return, and one it cannot
ScoredTypes ==
  {"loan_application", "kyc_document", "bank_statement", "salary_slip", "other", "invoice"}

\* extract_entities(text) returns
Extract ==
  /\ extraction.pc = "idle"
  /\ \E text \in ExtractTexts :
        extraction' = [extraction EXCEPT !.pc = "extracted", !.text = text,
                                         !.entities = extract_entities(text)]
  /\ UNCHANGED <<app_state, concurrent, chunker, classified>>

\* calculate_quality_score(text, doc_type): the score it computes from the
\* entities extract_entities(text) gives it
Score ==
  /\ extraction.pc = "extracted"
  /\ \E doc_type \in ScoredTypes :
        extraction' = [extraction EXCEPT !.pc = "scored", !.doc_type = doc_type,
                                         !.score = score_of(extraction.entities, doc_type)]
  /\ UNCHANGED <<app_state, concurrent, chunker, classified>>

\* the next text
ExtractAgain ==
  /\ extraction.pc = "scored"
  /\ extraction' = NoExtraction
  /\ UNCHANGED <<app_state, concurrent, chunker, classified>>

NextExtract == Extract \/ Score \/ ExtractAgain

SpecExtract == Init /\ [][NextExtract]_vars

----------------------------------------------------------------------------
(* classify_document called on its own                                     *)

MaxPhrases == 3

\* the pieces the texts are put together from: keywords of each type, some
\* in capitals, "premium" (which holds the keyword "emi") and a word that is
\* no keyword
Phrases ==
  << <<"L", "o", "a", "n", " ", "A", "m", "o", "u", "n", "t">>,
     <<"E", "M", "I">>,
     <<"p", "r", "e", "m", "i", "u", "m">>,
     <<"K", "Y", "C">>,
     <<"c", "r", "e", "d", "i", "t">>,
     <<"s", "a", "l", "a", "r", "y", " ", "s", "l", "i", "p">>,
     <<"h", "e", "l", "l", "o">> >>

\* the phrases of the list, each followed by a space
RECURSIVE phrased(_)
phrased(picks) ==
  IF picks = <<>> THEN <<>>
  ELSE Phrases[Head(picks)] \o <<" ">> \o phrased(Tail(picks))

ClassifyTexts ==
  {phrased(picks) : picks \in UNION {[1..n -> 1..Len(Phrases)] : n \in 0..MaxPhrases}}

\* classify_document(text) returns
Classify ==
  /\ classified.pc = "idle"
  /\ \E text \in ClassifyTexts :
        classified' = [pc |-> "done", text |-> text, doc_type |-> classify_document(text)]
  /\ UNCHANGED <<app_state, concurrent, chunker, extraction>>

\* the next text
ClassifyAgain ==
  /\ classified.pc = "done"
  /\ classified' = NoClassification
  /\ UNCHANGED <<app_state, concurrent, chunker, extraction>>

NextClassify == Classify \/ ClassifyAgain

SpecClassify == Init /\ [][NextClassify]_vars

----------------------------------------------------------------------------
(* The claims about ingestion and deletion, stated over Spec               *)

\* the last call was an ingestion
ingested == last.op = "ingest"

\* a step of the last ingestion raised or reported failure
step_failed ==
  \/ last.raised
  \/ last.fault.write # "ok"
  \/ last.fault.extract # "ok"
  \/ last.fault.save_document # "ok"
  \/ last.fault.save_entities # "ok"
  \/ last.fault.add_document >= 0
  \/ last.fault.save_chunks # "ok"

\* a store write of the last ingestion failed
write_failed ==
  \/ last.fault.save_document # "ok"
  \/ last.fault.save_entities # "ok"
  \/ last.fault.add_document >= 0
  \/ last.fault.save_chunks # "ok"

has_document(doc_id) == \E d \in documents : d.id = doc_id

\* the embedding ids of all chunks of the document of the last ingestion
chunk_ids_of_last ==
  LET chunks == Analysed[last.request.body].chunks
  IN  {embedding_id_of(last.doc_id, chunks[i][2]) : i \in 1..Len(chunks)}

\* C1: if a step of an ingestion failed, then after the call the record store
\* holds a document record of that id only if all chunks of the document are in
\* the retrieval index
C1_NoHalfDoneIngestion ==
  (ingested /\ step_failed /\ has_document(last.doc_id))
     => chunk_ids_of_last \subseteq DOMAIN collection

\* C2: once the delete handler has run and the document's row is gone, the
\* retrieval index holds no record of the deleted document id, whatever the
\* two deletion steps did
C2_NoVectorsAfterDeletion ==
  (last.op = "delete" /\ ~has_document(last.doc_id))
     => ids_of_document(collection, last.doc_id) = {}

\* C3: every entity row and every chunk row carries the id of a document
\* record that exists
C3_RowsHaveDocument ==
  /\ \A i \in 1..Len(entities) : has_document(entities[i].document_id)
  /\ \A i \in 1..Len(document_chunks) : has_document(document_chunks[i].document_id)

\* C6: if save_document, save_entities, add_document or save_chunks failed
\* during an ingestion, the ingestion call raises to its caller instead of
\* returning a normal result
C6_WriteFailureSurfaced ==
  (ingested /\ write_failed) => last.raised

\* the last upload has an unsupported file type or a text that is empty
input_error ==
  \/ suffix_lower(last.request.name.suffix) \notin SUPPORTED_EXTENSIONS
  \/ Read[last.request.body] = <<>>

\* every disk and store operation of the last ingestion worked
NoFault == [write |-> "ok", extract |-> "ok", save_document |-> "ok",
            save_entities |-> "ok", add_document |-> -1, save_chunks |-> "ok"]

\* C7: an ingestion of an unsupported file type or of an empty text raises, and
\* leaves no file in the documents directory, no row in the record store and
\* no record in the retrieval index for that upload (stated for the
\* ingestions in which the disk and the stores work)
C7_InputErrorCreatesNothing ==
  (ingested /\ last.fault = NoFault /\ input_error)
     => /\ last.raised
        /\ DOCUMENTS_DIR \o name_of(last.request) \notin files
        /\ ~has_document(last.doc_id)
        /\ \A i \in 1..Len(entities) : entities[i].document_id # last.doc_id
        /\ \A i \in 1..Len(document_chunks) : document_chunks[i].document_id # last.doc_id
        /\ ids_of_document(collection, last.doc_id) = {}

----------------------------------------------------------------------------
(* The claims about the engine's methods, stated over SpecEngine           *)

\* the last call was a query whose search succeeded
searched_query == last.op = "query" /\ last.fault.embed_ok /\ last.fault.store_ok

\* C4: query never raises: whichever of the embedder, the vector store and
\* the backend fails, it returns a result whose answer is the backend's
\* answer, the fallback excerpts or the "no relevant documents" message
C4_QueryNeverRaises ==
  last.op = "query"
     => /\ ~last.raised
        /\ \/ last.result.answer = LlmContent
           \/ last.result.answer
                = _fallback_response(last.request.question, last.result.results)

\* C5: when the backend was found available and its call fails (unreachable,
\* timeout, malformed response), the answer is exactly what _fallback_response
\* returns for the same question and context chunks, and nothing is raised
C5_BackendFailureFallsBack ==
  (searched_query /\ last.fault.chat # "ok")
     => /\ ~last.raised
        /\ last.result.available
        /\ last.result.answer
             = _fallback_response(last.request.question, last.result.results)

\* a query found the backend available, the backend call failed, and the
\* answer is the excerpts of the chunks that were retrieved
C5_Witness ==
  /\ searched_query
  /\ last.fault.chat \in {"unreachable", "timeout", "malformed"}
  /\ ~last.raised
  /\ last.result.backend_called
  /\ Len(last.result.results) > 0
  /\ last.result.answer = _fallback_response(last.request.question, last.result.results)

\* the results of the last search or query
last_results == last.result.results

\* C10: after delete_document_embeddings(d) returned True, and until chunks of
\* d are added again, no search and no query returns a record whose metadata
\* document_id is d
C10_NoDeletedRecordFound ==
  (last.op \in {"search", "query"} /\ ~last.raised)
     => \A i \in 1..Len(last_results) :
           \A p \in purged : last_results[i].metadata.document_id # p.doc_id

\* records of a document were deleted, and a later search returned records
C10_Witness ==
  /\ last.op = "search"
  /\ ~last.raised
  /\ Len(last_results) > 0
  /\ \E p \in purged : p.removed > 0

----------------------------------------------------------------------------
(* The claims about concurrent use of the engine                           *)

\* C8: however the requests interleave on a lazy provider, the provider is
\* constructed once and every request gets the same instance
C8_ConstructedOnce ==
  \A p \in Providers :
     /\ constructed[p] <= 1
     /\ \A t1, t2 \in Threads :
           (threads[t1].got[p] # 0 /\ threads[t2].got[p] # 0)
              => threads[t1].got[p] = threads[t2].got[p]

\* both add_document calls have returned
both_added == \A c \in Callers : adders[c].pc = "done"

\* what the call of caller c writes when it runs alone on the empty index
alone(c) ==
  add_document(<<>>, adders[c].doc_id, adders[c].chunks, adders[c].metadata, -1).collection

\* C9: after two add_document calls with different document ids, interleaved
\* in any order, the index holds exactly the records each call writes alone
C9_InterleavedAddsKeepRecords ==
  (both_added /\ adders[1].doc_id # adders[2].doc_id)
     => /\ DOMAIN collection = DOMAIN alone(1) \cup DOMAIN alone(2)
        /\ \A c \in Callers :
              \A id \in DOMAIN alone(c) :
                 /\ collection[id] = alone(c)[id]
                 /\ collection[id].metadata.document_id = adders[c].doc_id

\* two calls with two chunks each, whose writes alternated, have returned
C9_Witness ==
  /\ both_added
  /\ adders[1].doc_id = "doc1"
  /\ adders[2].doc_id = "doc1_chunk_0"
  /\ Len(adders[1].chunks) = 2
  /\ Len(adders[2].chunks) = 2
  /\ Cardinality(DOMAIN collection) = 4

----------------------------------------------------------------------------
(* The claims about single methods of the engine                           *)

\* this step is a call of delete_document_embeddings, answered by the vector
\* store, for a document that has no record in the index
deletes_absent ==
  /\ last.op = "none"
  /\ last'.op = "delete_embeddings"
  /\ last'.fault
  /\ ids_of_document(collection, last'.doc_id) = {}

\* C11: delete_document_embeddings for a document id without records in the
\* index (never added, or already deleted) returns True and leaves every
\* record of the index as it was (the vector store answering its calls)
C11_DeleteIsIdempotent ==
  [][deletes_absent => (last'.result = TRUE /\ collection' = collection)]_vars

\* delete_document_embeddings returned True for a document of which it found
\* no record, in an index that holds records of another document
C11_Witness ==
  /\ last.op = "delete_embeddings"
  /\ last.result = TRUE
  /\ collection # <<>>
  /\ \E p \in purged : p.doc_id = last.doc_id /\ p.removed = 0

----------------------------------------------------------------------------
(* The claims about chunk_text, stated over SpecChunk                      *)

\* the start of the window after the k-th one
next_start(k) ==
  IF k < Len(chunker.windows) THEN chunker.windows[k + 1].start ELSE chunker.start

\* C12: for every text, every chunk_size >= 1 and every overlap >= 0, also
\* overlap >= chunk_size, each iteration of the loop of chunk_text moves start
\* forward by at least one character
C12_EachIterationAdvances ==
  \A k \in 1..Len(chunker.windows) : next_start(k) >= chunker.windows[k].start + 1

\* C13: every chunk of chunk_text has at most chunk_size characters, also
\* when the window was cut at a sentence end
C13_ChunkWithinMaxSize ==
  \A i \in 1..Len(chunker.chunks) : Len(chunker.chunks[i][1]) <= chunker.chunk_size

\* C14: for a normalised text longer than chunk_size and 0 <= overlap <
\* chunk_size, the starts of the successive windows are strictly increasing
\* and a window shares at most overlap characters with the next one
C14_WindowsMoveForward ==
  (Len(chunker.text) > chunker.chunk_size /\ chunker.overlap < chunker.chunk_size)
     => \A k \in 1..Len(chunker.windows) :
           /\ next_start(k) > chunker.windows[k].start
           /\ chunker.windows[k].end - next_start(k) <= chunker.overlap

\* the input of the call, normalised: runs of whitespace collapsed, then stripped
normalised == strip(collapse_whitespace(chunker.raw))

\* C15: for a text whose normalised length is at most chunk_size, chunk_text
\* returns one chunk, of index 0, whose text is the normalised input
C15_ShortTextIsOneChunk ==
  (chunker.pc = "done" /\ Len(normalised) <= chunker.chunk_size)
     => chunker.chunks = << <<normalised, 0>> >>

\* a text that normalisation shortens to exactly chunk_size characters was
\* returned as one chunk
C15_Witness ==
  /\ chunker.pc = "done"
  /\ Len(chunker.raw) > Len(normalised)
  /\ Len(normalised) = chunker.chunk_size
  /\ chunker.overlap > 0
  /\ chunker.chunks = << <<normalised, 0>> >>

\* C16: chunk_text returns no chunk whose text is empty, also for an empty or
\* whitespace-only input, and the indexes of its chunks are 0, 1, 2, ...
C16_NoEmptyChunk ==
  chunker.pc = "done"
     => \A i \in 1..Len(chunker.chunks) :
           /\ chunker.chunks[i][1] # <<>>
           /\ chunker.chunks[i][2] = i - 1

----------------------------------------------------------------------------
(* The claims about the backend side of the engine, stated over SpecBackend *)

\* the entry of the excerpt listing for the i-th context chunk, empty when
\* there is no such chunk
listed(context_chunks, i) ==
  IF i > Len(context_chunks) THEN <<>>
  ELSE <<"**", ToString(i), ". From ", context_chunks[i].metadata.filename, ":**\n">>
       \o SubSeq(context_chunks[i].text, 1, IntMin(500, Len(context_chunks[i].text)))
       \o <<"...\n\n">>

\* C17: when the backend is unavailable, generate_response does not call it;
\* with no context chunk it returns the "No relevant documents found" message,
\* else a listing of the first min(3, n) chunks in their order, each with its
\* filename and the first 500 characters at most of its text
C17_FallbackListsFirstThree ==
  (last.op = "generate" /\ ~last.result.available)
     => /\ ~last.result.backend_called
        /\ ~last.raised
        /\ last.result.answer =
             IF last.request.context_chunks = <<>>
             THEN <<"No relevant documents found for your query.">>
             ELSE <<"**Ollama LLM not available. Here are the relevant document excerpts:**\n\n">>
                  \o listed(last.request.context_chunks, 1)
                  \o listed(last.request.context_chunks, 2)
                  \o listed(last.request.context_chunks, 3)
                  \o <<"\n*Install and run Ollama to get AI-powered answers: https://ollama.ai*">>

\* the backend was unavailable and four chunks were given, the third of them
\* longer than 500 characters
C17_Witness ==
  /\ last.op = "generate"
  /\ ~last.result.available
  /\ Len(last.request.context_chunks) = 4
  /\ Len(last.request.context_chunks[3].text) > 500
  /\ last.request.context_chunks[1].metadata.filename = "kyc.txt"

\* some value listed under entity_type passes the validator
some_validates(ents, entity_type, validator(_)) ==
  \E i \in 1..Len(ents) :
    /\ ents[i].entity_type = entity_type
    /\ \E v \in 1..Len(ents[i].values) : validator(ents[i].values[v])

\* the required types of doc_type that ents holds
required_present(ents, doc_type) ==
  {t \in {required_entities(doc_type)[i] : i \in 1..Len(required_entities(doc_type))} :
     \E i \in 1..Len(ents) : ents[i].entity_type = t}

\* 100 * present / required + 5 for a valid PAN + 5 for a valid Aadhaar
\* number, times the number of required types
uncapped_times_required(ents, doc_type) ==
  100 * Cardinality(required_present(ents, doc_type))
    + (IF some_validates(ents, "pan_number", validate_pan) THEN 5 ELSE 0)
        * Len(required_entities(doc_type))
    + (IF some_validates(ents, "aadhaar_number", validate_aadhaar) THEN 5 ELSE 0)
        * Len(required_entities(doc_type))

\* C18: the quality score is a function of the document type and of the
\* extracted entities alone, lies between 0 and 100, is 75 for the type
\* 'other', and for a type with a required list is
\* min(100, 100 * present / required + 5 if some PAN validates + 5 if some
\* Aadhaar number validates)
C18_ScoreFormula ==
  extraction.pc = "scored" =>
    LET required == Len(required_entities(extraction.doc_type))
        uncapped == uncapped_times_required(extraction.entities, extraction.doc_type)
        score == extraction.score
    IN  /\ score.den > 0
        /\ 0 <= score.num
        /\ score.num <= 100 * score.den
        /\ extraction.doc_type = "other" => score.num = 75 * score.den
        /\ required > 0 =>
              score.num * required
                = score.den * (IF uncapped > 100 * required THEN 100 * required ELSE uncapped)

\* a salary slip with a valid PAN, an amount and a date: 100 + 5, capped
C18_Witness ==
  /\ extraction.pc = "scored"
  /\ extraction.doc_type = "salary_slip"
  /\ Cardinality(required_present(extraction.entities, "salary_slip")) = 3
  /\ some_validates(extraction.entities, "pan_number", validate_pan)
  /\ extraction.score.num = 100 * extraction.score.den

\* the place of the first match equal to value
first_match(matches, value) ==
  CHOOSE i \in 1..Len(matches) :
    matches[i] = value /\ \A j \in 1..(i - 1) : matches[j] # value

\* values lists every match once, in the order of the first occurrences
once_in_order(values, matches) ==
  /\ values # <<>>
  /\ \A a, b \in 1..Len(values) : a # b => values[a] # values[b]
  /\ {values[a] : a \in 1..Len(values)} = {matches[i] : i \in 1..Len(matches)}
  /\ \A a, b \in 1..Len(values) :
        a < b => first_match(matches, values[a]) < first_match(matches, values[b])

\* C19: extract_entities maps each type that matches to a non-empty list of
\* its matches without repeats, in the order they first occur in the text,
\* leaves out the types without a match, and gives the same result when it
\* runs again on the same text
C19_EntitiesOnceInOrder ==
  extraction.pc = "extracted" =>
    /\ \A i, j \in 1..Len(extraction.entities) :
          i # j => extraction.entities[i].entity_type # extraction.entities[j].entity_type
    /\ \A p \in 1..Len(PATTERNS) :
          LET matches == findall_ignore_case(PATTERNS[p].pattern, extraction.text)
              held == {i \in 1..Len(extraction.entities) :
                         extraction.entities[i].entity_type = PATTERNS[p].entity_type}
          IN  IF matches = <<>> THEN held = {}
              ELSE /\ held # {}
                   /\ \A i \in held : once_in_order(extraction.entities[i].values, matches)
    /\ \A i \in 1..Len(extraction.entities) :
          \E p \in 1..Len(PATTERNS) :
            PATTERNS[p].entity_type = extraction.entities[i].entity_type
    /\ extract_entities(extraction.text) = extraction.entities

\* a text with the same PAN twice around another one: the type lists two
\* values for three matches, and other types are left out
C19_Witness ==
  /\ extraction.pc = "extracted"
  /\ \E i \in 1..Len(extraction.entities) :
        /\ extraction.entities[i].entity_type = "pan_number"
        /\ Len(extraction.entities[i].values) = 2
        /\ Len(findall_ignore_case(PATTERNS[1].pattern, extraction.text)) = 3
  /\ ~has_entity(extraction.entities, "date")

\* the last call returned what it found about the backend's availability
observes_availability ==
  \/ last.op \in {"check_ollama", "generate"}
  \/ last.op = "stats" /\ ~last.result.failed

\* C20: over any sequence of check_ollama_available, generate_response and
\* get_collection_stats calls on one engine, the backend is probed at most
\* once, the value of that probe stays cached, also after a failed backend
\* call, and every call observes it
C20_ProbedOnce ==
  /\ Len(probes) <= 1
  /\ _ollama_available = (IF probes = <<>> THEN "None"
                          ELSE IF probes[1] THEN "True" ELSE "False")
  /\ observes_availability => (probes # <<>> /\ last.result.available = probes[1])
  /\ (last.op = "stats" /\ ~last.result.failed) => last.result.has_model = probes[1]

\* the backend was found available by the one probe, and a later call of it
\* failed
C20_Witness ==
  /\ last.op = "generate"
  /\ last.fault.chat \in {"unreachable", "timeout", "malformed"}
  /\ last.result.backend_called
  /\ probes = <<TRUE>>
  /\ _ollama_available = "True"

\* C21: when the vector deletion of a document fails, the record-store
\* deletion still runs after it, and the failure is reported to whoever asked
\* for the deletion: the handler does not announce "Document deleted!"
C21_VectorFailureReported ==
  (last.op = "delete" /\ ~last.fault.vectors) =>
    /\ last.fault.rows = "ok" => ~has_document(last.doc_id)
    /\ last.raised \/ last.result.message # "Document deleted!"

\* the keywords of the type declared at place t that occur in the text,
\* whatever the case of its letters
hits(t, text) ==
  Cardinality({k \in 1..Len(classifications[t].keywords) :
     \E i \in 0..(Len(text) - Len(classifications[t].keywords[k])) :
        \A c \in 1..Len(classifications[t].keywords[k]) :
           lower_char(text[i + c]) = classifications[t].keywords[k][c]})

\* C22: classify_document returns the type with the most keyword hits, on
\* equal counts the type declared first, and 'other' if and only if no
\* keyword of any type occurs in the text
C22_MostHitsFirstDeclared ==
  classified.pc = "done" =>
    /\ classified.doc_type = "other"
         <=> \A t \in 1..Len(classifications) : hits(t, classified.text) = 0
    /\ classified.doc_type # "other" =>
         \E t \in 1..Len(classifications) :
            /\ classifications[t].doc_type = classified.doc_type
            /\ \A u \in 1..Len(classifications) :
                  hits(u, classified.text) <= hits(t, classified.text)
            /\ \A u \in 1..(t - 1) : hits(u, classified.text) < hits(t, classified.text)

\* two types with one hit each, one of them through a keyword inside a longer
\* word: the type declared first is returned
C22_Witness ==
  /\ classified.pc = "done"
  /\ hits(1, classified.text) = 1
  /\ hits(3, classified.text) = 1
  /\ hits(2, classified.text) = 0
  /\ classified.doc_type = "loan_application"

\* the rank of the first retrieved chunk of the file
first_of_file(results, filename) ==
  CHOOSE i \in 1..Len(results) :
    /\ results[i].metadata.filename = filename
    /\ \A j \in 1..(i - 1) : results[j].metadata.filename # filename

\* C23: the sources of a query result hold one entry per distinct filename
\* among the retrieved chunks, in the order of the first occurrences, each
\* with the relevance 1 - distance of that first occurrence; chunks_retrieved
\* is the number of retrieved chunks and is never below the number of sources
C23_SourcesOncePerFile ==
  (last.op = "query" /\ ~last.raised) =>
    LET results == last.result.results
        sources == last.result.sources
    IN  /\ last.result.chunks_retrieved = Len(results)
        /\ Len(sources) <= last.result.chunks_retrieved
        /\ \A a, b \in 1..Len(sources) : a # b => sources[a].filename # sources[b].filename
        /\ {sources[a].filename : a \in 1..Len(sources)}
             = {results[i].metadata.filename : i \in 1..Len(results)}
        /\ \A a \in 1..Len(sources) :
             sources[a].relevance
               = 1000 - results[first_of_file(results, sources[a].filename)].distance
        /\ \A a, b \in 1..Len(sources) :
             a < b => first_of_file(results, sources[a].filename)
                        < first_of_file(results, sources[b].filename)

\* three chunks retrieved, the first and the third of the same file and at
\* different distances: two sources, the first with the relevance of rank 1
C23_Witness ==
  /\ last.op = "query"
  /\ ~last.raised
  /\ last.result.chunks_retrieved = 3
  /\ last.result.results[1].metadata.filename = last.result.results[3].metadata.filename
  /\ last.result.results[1].metadata.filename # last.result.results[2].metadata.filename
  /\ last.result.results[1].distance < last.result.results[3].distance
  /\ Len(last.result.sources) = 2
  /\ last.result.sources[1].relevance = 750

\* the document's ingestion ran to its last step: its chunk rows are stored
wholly_ingested(doc_id) ==
  \E i \in 1..Len(document_chunks) : document_chunks[i].document_id = doc_id

\* C24: after a deletion in which both steps worked, every document record
\* still in the store (ingested without a failure) has its file on disk,
\* also when another document was uploaded under the same filename
C24_LiveDocumentsKeepFile ==
  (last.op = "delete" /\ last.fault.rows = "ok" /\ last.fault.vectors) =>
    \A doc \in documents : wholly_ingested(doc.id) => doc.file_path \in files

\* the offsets of the text that lie in one of the windows cut so far
covered == {i \in 0..(Len(chunker.text) - 1) : \E k \in 1..Len(chunker.windows) : chunker.windows[k].start <= i /\ i < chunker.windows[k].end}

\* the first window starts at offset 0 and each next window starts at or
\* before the end of the one before it
C25_Contiguous ==
  (Len(chunker.text) > chunker.chunk_size /\ chunker.overlap < chunker.chunk_size) =>
    /\ chunker.windows # <<>> => chunker.windows[1].start = 0
    /\ \A k \in 1..Len(chunker.windows) : next_start(k) <= chunker.windows[k].end

\* when the call returns, the last window reaches the end of the text and
\* every offset of the text lies in a window
C25_CoveredAtReturn ==
  (Len(chunker.text) > chunker.chunk_size /\ chunker.overlap < chunker.chunk_size
     /\ chunker.pc = "done") =>
    /\ chunker.windows[Len(chunker.windows)].end >= Len(chunker.text)
    /\ covered = 0..(Len(chunker.text) - 1)

\* the loop comes to a last window: no start is cut twice (an iteration
\* depends on start alone, so a start that comes back comes back for ever)
C25_ReachesLastWindow ==
  (Len(chunker.text) > chunker.chunk_size /\ chunker.overlap < chunker.chunk_size) =>
    \A j, k \in 1..Len(chunker.windows) : j < k => chunker.windows[j].start # chunker.windows[k].start

\* C25: for a normalised text longer than chunk_size and 0 <= overlap <
\* chunk_size the windows leave no gap: the first starts at offset 0, each
\* next one starts at or before the end of the one before, and the loop comes
\* to a last window, which reaches the end of the text, so that every
\* character lies in a window
C25_WindowsLeaveNoGap == C25_Contiguous /\ C25_CoveredAtReturn /\ C25_ReachesLastWindow

====
